---- MODULE Spec2Model ----
(***************************************************************************)
(* The order service (orders/app) and the catalog service (catalog/app)    *)
(* over their shared PostgreSQL database.                                  *)
(*                                                                         *)
(* Every HTTP request runs in one SQLAlchemy session, i.e. one database    *)
(* transaction at READ COMMITTED (the engine sets no isolation level): a   *)
(* statement reads the committed rows plus the transaction's own writes,   *)
(* an UPDATE or DELETE takes the row lock and waits while another          *)
(* transaction holds it, and re-evaluates its WHERE clause on the row as   *)
(* committed when the lock is granted.  One action of the model is one     *)
(* database round trip of a handler together with the Python code around   *)
(* it.  The products.name and orders.created_at columns are written but    *)
(* never read by any handler modelled here and are left out.               *)
(***************************************************************************)
EXTENDS Integers, Sequences, FiniteSets, TLC

\* ---------------------------------------------------------------- bounds
NumProducts == 2    \* product ids 1..NumProducts
NumReqs     == 2    \* HTTP requests of one behaviour
MaxItems    == 2    \* longest item list of a POST /orders body
MaxQty      == 2    \* largest qty of one item
MaxStock    == 2    \* largest stock of the initial catalog and of a PUT body
MaxPrice    == 2    \* largest price_cents of the initial catalog and of a PUT body

PIDs  == 1..NumProducts
Reqs  == 1..NumReqs
Users == {"alice", "bob"}
NoUser == ""        \* the X-User header is absent

VARIABLES
    products,           \* catalog.products, committed: id -> [price_cents, stock]
    orders,             \* orders.orders, committed rows
    order_items,        \* orders.order_items, committed rows
    orders_id_seq,      \* the sequence behind orders.id
    order_items_id_seq, \* the sequence behind order_items.id
    h,                  \* h[r]: the frame of request r (handler locals, session)
    pre                 \* history: the catalog of the initial state

db   == <<products, orders, order_items, orders_id_seq, order_items_id_seq>>
vars == <<products, orders, order_items, orders_id_seq, order_items_id_seq, h, pre>>

\* ------------------------------------------------------- finite functions
EmptyFn == [x \in {} |-> 0]

Put(f, k, v) == [x \in DOMAIN f \cup {k} |-> IF x = k THEN v ELSE f[x]]

RECURSIVE SortedSeqDesc(_)
\* mutant: sorted(S, reverse=True)
SortedSeqDesc(S) ==
    IF S = {} THEN <<>>
    ELSE LET m == CHOOSE x \in S : \A y \in S : x >= y
         IN <<m>> \o SortedSeqDesc(S \ {m})

RECURSIVE SortedSeq(_)
\* sorted(S) for a finite set of integers
SortedSeq(S) ==
    IF S = {} THEN <<>>
    ELSE LET m == CHOOSE x \in S : \A y \in S : x <= y
         IN <<m>> \o SortedSeq(S \ {m})

RECURSIVE SortedAsc(_)
\* mutant: ORDER BY id ASC
SortedAsc(S) ==
    IF S = {} THEN <<>>
    ELSE LET m == CHOOSE x \in S : \A y \in S : x.id <= y.id
         IN <<m>> \o SortedAsc(S \ {m})

RECURSIVE SortedDesc(_)
\* ORDER BY id DESC over a set of rows
SortedDesc(S) ==
    IF S = {} THEN <<>>
    ELSE LET m == CHOOSE x \in S : \A y \in S : x.id >= y.id
         IN <<m>> \o SortedDesc(S \ {m})

\* ---------------------------------------------------------------- inputs
RECURSIVE SeqsUpTo(_, _)
SeqsUpTo(S, n) ==
    IF n = 0 THEN {<<>>}
    ELSE LET shorter == SeqsUpTo(S, n - 1)
         IN shorter \cup {Append(s, x) : s \in {t \in shorter : Len(t) = n - 1}, x \in S}

\* OrderItemIn values a client can send, the invalid qty 0 included
ItemIns == [product_id : PIDs, qty : 0..MaxQty]
\* OrderCreate.items
ItemLists == SeqsUpTo(ItemIns, MaxItems)
\* ProductIn values, the invalid stock -1 included
ProductIns == [price_cents : 0..MaxPrice, stock : -1..MaxStock]

\* schemas.OrderItemIn / OrderCreate: product_id >= 1, qty >= 1, at least one item
ValidOrderCreate(items) ==
    /\ Len(items) >= 1
    /\ \A k \in 1..Len(items) : items[k].product_id >= 1 /\ items[k].qty >= 1

\* schemas.ProductIn: price_cents >= 0, stock >= 0
ValidProductIn(body) == body.price_cents >= 0 /\ body.stock >= 0

\* ---------------------------------------------------------------- frames
NoTx    == [products |-> EmptyFn, orders |-> {}, order_items |-> {}]
NoOrder == [id |-> 0, user_id |-> NoUser, total_cents |-> 0]
NoBody  == [price_cents |-> 0, stock |-> 0]
NoDetail == [msg |-> "", arg |-> <<>>]

Idle ==
    [pc |-> "idle", op |-> "none", user |-> NoUser, items |-> <<>>, pid |-> 0,
     body |-> NoBody, session |-> "none", tx |-> NoTx, combined |-> <<>>,
     prices |-> EmptyFn, i |-> 0, order |-> NoOrder, p |-> NoBody, rows |-> <<>>,
     out |-> <<>>, status |-> 0, detail |-> NoDetail, response |-> <<>>,
     stmts |-> <<>>, created |-> 0]

\* --------------------------------------------------------- the database
\* a row version a transaction wrote and has not committed
Written(row) == [deleted |-> FALSE, price_cents |-> row.price_cents, stock |-> row.stock]
Deleted == [deleted |-> TRUE, price_cents |-> 0, stock |-> 0]

\* mutant: READ UNCOMMITTED, a statement reads the row versions that other open
\* transactions have written
ProductsSeenDirty(r) ==
    LET writer(p) == IF p \in DOMAIN h[r].tx.products THEN {r}
                     ELSE {q \in Reqs : p \in DOMAIN h[q].tx.products}
        version(p) == LET q == CHOOSE q \in writer(p) : TRUE IN h[q].tx.products[p]
        ids == {p \in DOMAIN products \cup UNION {DOMAIN h[q].tx.products : q \in Reqs} :
                   IF writer(p) # {} THEN ~version(p).deleted ELSE TRUE}
    IN [p \in ids |-> IF writer(p) # {}
                      THEN [price_cents |-> version(p).price_cents, stock |-> version(p).stock]
                      ELSE products[p]]

\* the products table as a statement of request r reads it
ProductsSeen(r) ==
    LET w == h[r].tx.products
        ids == {p \in DOMAIN products \cup DOMAIN w :
                   IF p \in DOMAIN w THEN ~w[p].deleted ELSE TRUE}
    IN [p \in ids |-> IF p \in DOMAIN w
                      THEN [price_cents |-> w[p].price_cents, stock |-> w[p].stock]
                      ELSE products[p]]

\* mutant: statements take no row lock
NoRowLock(r, pid) == FALSE

\* another open transaction holds the row lock of product pid
LockedByOther(r, pid) ==
    \E q \in Reqs \ {r} : h[q].session = "open" /\ pid \in DOMAIN h[q].tx.products

\* the products table after the transaction's writes are committed
CommitProducts(w) ==
    LET ids == {p \in DOMAIN products \cup DOMAIN w :
                   IF p \in DOMAIN w THEN ~w[p].deleted ELSE TRUE}
    IN [p \in ids |-> IF p \in DOMAIN w
                      THEN [price_cents |-> w[p].price_cents, stock |-> w[p].stock]
                      ELSE products[p]]

\* ------------------------------------------------------ get_session exits
\* mutant: the error is swallowed and the session goes on to s.commit()
RaiseSwallowed(f, status, msg, arg) ==
    [f EXCEPT !.pc = "commit", !.detail = [msg |-> msg, arg |-> arg]]

\* mutant: no except branch and no finally: the error leaves the session as it is
RaiseLeak(f, status, msg, arg) ==
    [f EXCEPT !.pc = "done", !.status = status, !.detail = [msg |-> msg, arg |-> arg]]

\* the dependency's except branch: s.rollback(), s.close(), the error goes out
Raise(f, status, msg, arg) ==
    [f EXCEPT !.pc = "done", !.status = status, !.detail = [msg |-> msg, arg |-> arg],
              !.tx = NoTx,
              !.session = IF f.session = "open" THEN "rolled_back" ELSE f.session]

\* ------------------------------------------------------------ create_order
RECURSIVE CombineOverwrite(_)
\* mutant: combined[it.product_id] = it.qty, the last entry wins
CombineOverwrite(items) ==
    IF items = <<>> THEN <<>>
    ELSE LET n    == Len(items)
             head == CombineOverwrite(SubSeq(items, 1, n - 1))
             it   == items[n]
             at   == {k \in 1..Len(head) : head[k].product_id = it.product_id}
         IN IF at = {}
            THEN Append(head, [product_id |-> it.product_id, qty |-> it.qty])
            ELSE [k \in 1..Len(head) |->
                     IF k \in at THEN [head[k] EXCEPT !.qty = it.qty] ELSE head[k]]

\* mutant: no merging, one entry per entry of the body
CombineEach(items) ==
    [k \in 1..Len(items) |-> [product_id |-> items[k].product_id, qty |-> items[k].qty]]

RECURSIVE Combine(_)
\* the loop that merges duplicate product ids; a dict keeps first-insertion order
Combine(items) ==
    IF items = <<>> THEN <<>>
    ELSE LET n    == Len(items)
             head == Combine(SubSeq(items, 1, n - 1))
             it   == items[n]
             at   == {k \in 1..Len(head) : head[k].product_id = it.product_id}
         IN IF at = {}
            THEN Append(head, [product_id |-> it.product_id, qty |-> it.qty])
            ELSE [k \in 1..Len(head) |->
                     IF k \in at THEN [head[k] EXCEPT !.qty = @ + it.qty] ELSE head[k]]

Keys(combined) == {combined[k].product_id : k \in 1..Len(combined)}

\* require_user, get_session up to its yield, the body's validation, then the
\* handler down to product_ids
CreateOrderBegin(r, user, items) ==
    /\ h[r].pc = "idle"
    /\ LET f0 == [h[r] EXCEPT !.op = "create_order", !.user = user, !.items = items]
           f1 == [f0 EXCEPT !.session = "open", !.stmts = <<"CREATE SCHEMA">>]
       IN h' = [h EXCEPT ![r] =
            IF user = NoUser THEN Raise(f0, 401, "missing X-User", <<>>)
            ELSE IF ~ValidOrderCreate(items) THEN Raise(f1, 422, "validation", <<>>)
            ELSE IF items = <<>> THEN Raise(f1, 400, "items must not be empty", <<>>)
            ELSE [f1 EXCEPT !.pc = "fetch_prices", !.combined = Combine(items)]]
    /\ UNCHANGED <<db, pre>>

\* SELECT id, price_cents FROM catalog.products WHERE id = ANY(:ids)
FetchPricesRows(r, product_ids) ==
    LET seen == ProductsSeen(r)
    IN [p \in product_ids \cap DOMAIN seen |-> seen[p].price_cents]

\* fetch_prices and the missing-product check
FetchPrices(r) ==
    /\ h[r].pc = "fetch_prices"
    /\ LET product_ids == Keys(h[r].combined)
           prices == IF product_ids = {} THEN EmptyFn ELSE FetchPricesRows(r, product_ids)
           f1 == [h[r] EXCEPT !.prices = prices,
                              !.stmts = IF product_ids = {} THEN @
                                        ELSE Append(@, "SELECT products")]
       IN h' = [h EXCEPT ![r] =
            IF Cardinality(DOMAIN prices) # Cardinality(product_ids)
            THEN Raise(f1, 400, "unknown product(s)",
                       SortedSeq(product_ids \ DOMAIN prices))
            ELSE [f1 EXCEPT !.pc = "reserve_stock", !.i = 1]]
    /\ UNCHANGED <<db, pre>>

\* mutant: the UPDATE without its AND stock >= :qty
ReserveMatchesNoStock(r, pid, qty) == pid \in DOMAIN ProductsSeen(r)

\* the row the conditional UPDATE of product pid by qty matches, if any
ReserveMatches(r, pid, qty) ==
    LET seen == ProductsSeen(r)
    IN pid \in DOMAIN seen /\ seen[pid].stock >= qty

\* mutant: SET stock = stock - 1
ReserveWriteByOne(r, pid, qty) ==
    LET row == ProductsSeen(r)[pid]
    IN Put(h[r].tx.products, pid, Written([row EXCEPT !.stock = @ - 1]))

\* UPDATE catalog.products SET stock = stock - :qty WHERE id = :pid AND stock >= :qty
ReserveWrite(r, pid, qty) ==
    LET row == ProductsSeen(r)[pid]
    IN Put(h[r].tx.products, pid, Written([row EXCEPT !.stock = @ - qty]))

\* one pass of reserve_stock's loop
ReserveStock(r) ==
    /\ h[r].pc = "reserve_stock"
    /\ LET it  == h[r].combined[h[r].i]
           pid == it.product_id
           qty == it.qty
           f1  == [h[r] EXCEPT !.stmts = Append(@, "UPDATE products")]
       IN IF ~ReserveMatches(r, pid, qty)
          THEN h' = [h EXCEPT ![r] =
                        Raise(f1, 400, "insufficient stock for product", <<pid>>)]
          ELSE /\ ~LockedByOther(r, pid)
               /\ h' = [h EXCEPT ![r] =
                    [f1 EXCEPT !.tx.products = ReserveWrite(r, pid, qty),
                               !.i = @ + 1,
                               !.pc = IF h[r].i = Len(h[r].combined)
                                      THEN "add_order" ELSE "reserve_stock"]]
    /\ UNCHANGED <<db, pre>>

\* order = Order(user_id=user, total_cents=0); session.add(order); session.flush()
AddOrder(r) ==
    /\ h[r].pc = "add_order"
    /\ LET order == [id |-> orders_id_seq, user_id |-> h[r].user, total_cents |-> 0]
       IN h' = [h EXCEPT ![r] =
            [@ EXCEPT !.order = order,
                      !.tx.orders = @ \cup {order},
                      !.stmts = Append(@, "INSERT orders"),
                      !.pc = "add_items"]]
    /\ orders_id_seq' = orders_id_seq + 1
    /\ UNCHANGED <<products, orders, order_items, order_items_id_seq, pre>>

RECURSIVE TotalNoQty(_, _)
\* mutant: total += price
TotalNoQty(combined, prices) ==
    IF combined = <<>> THEN 0
    ELSE LET n == Len(combined)
         IN TotalNoQty(SubSeq(combined, 1, n - 1), prices) + prices[combined[n].product_id]

RECURSIVE Total(_, _)
\* total += price * qty over combined
Total(combined, prices) ==
    IF combined = <<>> THEN 0
    ELSE LET n == Len(combined)
         IN Total(SubSeq(combined, 1, n - 1), prices)
            + prices[combined[n].product_id] * combined[n].qty

\* mutant: each OrderItem takes the price the catalog holds when the item is built
NewItemsCurrentPrice(order_id, combined, prices, first_id) ==
    {[id |-> first_id + k - 1, order_id |-> order_id,
      product_id |-> combined[k].product_id, qty |-> combined[k].qty,
      price_cents |-> products[combined[k].product_id].price_cents] : k \in 1..Len(combined)}

\* the OrderItem rows of the loop over combined, ids drawn from the sequence
NewItems(order_id, combined, prices, first_id) ==
    {[id |-> first_id + k - 1, order_id |-> order_id,
      product_id |-> combined[k].product_id, qty |-> combined[k].qty,
      price_cents |-> prices[combined[k].product_id]] : k \in 1..Len(combined)}

OrderItemOut(row) ==
    [product_id |-> row.product_id, qty |-> row.qty, price_cents |-> row.price_cents]

\* OrderOut of an order row and the order_items rows read for it; a relationship
\* load has no ORDER BY, so the items are kept as the set of rows it returns
OrderOut(o, items) ==
    [id |-> o.id, user_id |-> o.user_id, total_cents |-> o.total_cents,
     items |-> {OrderItemOut(x) : x \in items}]

\* the items loop, order.total_cents = total, flush, refresh, and the OrderOut built
AddItems(r) ==
    /\ h[r].pc = "add_items"
    /\ LET f     == h[r]
           total == Total(f.combined, f.prices)
           items == NewItems(f.order.id, f.combined, f.prices, order_items_id_seq)
           order == [f.order EXCEPT !.total_cents = total]
           rows  == (f.tx.orders \ {f.order}) \cup {order}
           mine  == {x \in order_items \cup f.tx.order_items \cup items :
                        x.order_id = order.id}
       IN h' = [h EXCEPT ![r] =
            [f EXCEPT !.order = order,
                      !.tx.orders = rows,
                      !.tx.order_items = @ \cup items,
                      !.stmts = @ \o <<"INSERT order_items", "UPDATE orders",
                                      "SELECT orders", "SELECT order_items">>,
                      !.created = 1,
                      !.response = <<OrderOut(order, mine)>>,
                      !.pc = "commit"]]
    /\ order_items_id_seq' = order_items_id_seq + Len(h[r].combined)
    /\ UNCHANGED <<products, orders, order_items, orders_id_seq, pre>>

\* the orders table after the transaction's inserts are committed
CommitOrders(tx) == orders \cup tx.orders

\* mutant: order_items.product_id as a foreign key with ON DELETE CASCADE
CommitOrderItemsCascade(tx) ==
    {x \in order_items :
        ~(x.product_id \in DOMAIN tx.products /\ tx.products[x.product_id].deleted)}
    \cup tx.order_items

\* the order_items table after the transaction's inserts are committed; product_id
\* is a plain Integer column, so a committed product DELETE removes no item
CommitOrderItems(tx) == order_items \cup tx.order_items

\* get_session after its yield: s.commit(), s.close()
Commit(r) ==
    /\ h[r].pc = "commit"
    /\ products' = CommitProducts(h[r].tx.products)
    /\ orders' = CommitOrders(h[r].tx)
    /\ order_items' = CommitOrderItems(h[r].tx)
    /\ h' = [h EXCEPT ![r] =
            [@ EXCEPT !.pc = "done", !.session = "committed", !.tx = NoTx,
                      !.status = IF h[r].op = "delete_product" THEN 204 ELSE 200]]
    /\ UNCHANGED <<orders_id_seq, order_items_id_seq, pre>>

\* ----------------------------------------------------------- list_my_orders
\* require_user and get_session up to its yield
ListMyOrdersBegin(r, user) ==
    /\ h[r].pc = "idle"
    /\ LET f0 == [h[r] EXCEPT !.op = "list_my_orders", !.user = user]
       IN h' = [h EXCEPT ![r] =
            IF user = NoUser THEN Raise(f0, 401, "missing X-User", <<>>)
            ELSE [f0 EXCEPT !.session = "open", !.stmts = <<"CREATE SCHEMA">>,
                            !.pc = "select_orders"]]
    /\ UNCHANGED <<db, pre>>

\* select(Order).where(Order.user_id == user).order_by(Order.id.desc())
SelectOrders(r) ==
    /\ h[r].pc = "select_orders"
    /\ LET rows == SortedDesc({o \in orders \cup h[r].tx.orders : o.user_id = h[r].user})
       IN h' = [h EXCEPT ![r] =
            [@ EXCEPT !.rows = rows, !.i = 1, !.out = <<>>,
                      !.stmts = Append(@, "SELECT orders"),
                      !.response = <<>>,
                      !.pc = IF rows = <<>> THEN "commit" ELSE "load_items"]]
    /\ UNCHANGED <<db, pre>>

\* one pass of the loop over orders: o.items is loaded by its own SELECT
LoadItems(r) ==
    /\ h[r].pc = "load_items"
    /\ LET o     == h[r].rows[h[r].i]
           items == {x \in order_items \cup h[r].tx.order_items : x.order_id = o.id}
           out   == Append(h[r].out, OrderOut(o, items))
           last  == h[r].i = Len(h[r].rows)
       IN h' = [h EXCEPT ![r] =
            [@ EXCEPT !.out = out, !.i = @ + 1,
                      !.stmts = Append(@, "SELECT order_items"),
                      !.response = IF last THEN out ELSE <<>>,
                      !.pc = IF last THEN "commit" ELSE "load_items"]]
    /\ UNCHANGED <<db, pre>>

\* ---------------------------------------------------- catalog: update_product
\* require_user, the catalog's get_session, the body's validation, session.get
UpdateProductBegin(r, user, pid, body) ==
    /\ h[r].pc = "idle"
    /\ LET f0 == [h[r] EXCEPT !.op = "update_product", !.user = user, !.pid = pid,
                              !.body = body]
           f1 == [f0 EXCEPT !.session = "open"]
           f2 == [f1 EXCEPT !.stmts = <<"SELECT products">>]
       IN h' = [h EXCEPT ![r] =
            IF user = NoUser THEN Raise(f0, 401, "missing X-User", <<>>)
            ELSE IF ~ValidProductIn(body) THEN Raise(f1, 422, "validation", <<>>)
            ELSE IF pid \notin DOMAIN products THEN Raise(f2, 404, "not found", <<>>)
            ELSE [f2 EXCEPT !.p = products[pid], !.pc = "flush"]]
    /\ UNCHANGED <<db, pre>>

\* the columns the unit of work finds changed on p after the three assignments
Changed(p, body) ==
    {c \in {"price_cents", "stock"} : body[c] # p[c]}

\* mutant: the body's stock taken as a delivery, SET stock = stock + :stock
UpdateWriteAddsStock(row, body, cols) ==
    [price_cents |-> IF "price_cents" \in cols THEN body.price_cents ELSE row.price_cents,
     stock       |-> IF "stock" \in cols THEN row.stock + body.stock ELSE row.stock]

\* UPDATE products SET <changed columns> WHERE id = :pid, on the row as committed
UpdateWrite(row, body, cols) ==
    [price_cents |-> IF "price_cents" \in cols THEN body.price_cents ELSE row.price_cents,
     stock       |-> IF "stock" \in cols THEN body.stock ELSE row.stock]

\* session.flush() and session.refresh(p)
UpdateProductFlush(r) ==
    /\ h[r].pc = "flush"
    /\ h[r].op = "update_product"
    /\ LET f    == h[r]
           cols == Changed(f.p, f.body)
       IN IF cols = {}
          THEN h' = [h EXCEPT ![r] =
                        [f EXCEPT !.stmts = Append(@, "SELECT products"), !.pc = "commit"]]
          ELSE IF f.pid \notin DOMAIN products
          THEN h' = [h EXCEPT ![r] =
                        Raise([f EXCEPT !.stmts = Append(@, "UPDATE products")],
                              500, "StaleDataError", <<f.pid>>)]
          ELSE /\ ~LockedByOther(r, f.pid)
               /\ h' = [h EXCEPT ![r] =
                    [f EXCEPT !.tx.products =
                                  Put(@, f.pid, Written(UpdateWrite(products[f.pid], f.body, cols))),
                              !.stmts = @ \o <<"UPDATE products", "SELECT products">>,
                              !.pc = "commit"]]
    /\ UNCHANGED <<db, pre>>

\* ---------------------------------------------------- catalog: delete_product
\* require_user, the catalog's get_session, session.get, session.delete(p)
DeleteProductBegin(r, user, pid) ==
    /\ h[r].pc = "idle"
    /\ LET f0 == [h[r] EXCEPT !.op = "delete_product", !.user = user, !.pid = pid]
           f1 == [f0 EXCEPT !.session = "open", !.stmts = <<"SELECT products">>]
       IN h' = [h EXCEPT ![r] =
            IF user = NoUser THEN Raise(f0, 401, "missing X-User", <<>>)
            ELSE IF pid \notin DOMAIN products THEN Raise(f1, 404, "not found", <<>>)
            ELSE [f1 EXCEPT !.p = products[pid], !.pc = "flush"]]
    /\ UNCHANGED <<db, pre>>

\* the flush inside s.commit(): DELETE FROM products WHERE id = :pid; a DELETE
\* that matches no row only warns
DeleteProductFlush(r) ==
    /\ h[r].pc = "flush"
    /\ h[r].op = "delete_product"
    /\ LET f == [h[r] EXCEPT !.stmts = Append(@, "DELETE products"), !.pc = "commit"]
       IN IF h[r].pid \notin DOMAIN products
          THEN h' = [h EXCEPT ![r] = f]
          ELSE /\ ~LockedByOther(r, h[r].pid)
               /\ h' = [h EXCEPT ![r] = [f EXCEPT !.tx.products = Put(@, h[r].pid, Deleted)]]
    /\ UNCHANGED <<db, pre>>

\* ------------------------------------------------- PostgreSQL: deadlocks
\* the product whose row lock request r is waiting for, 0 if it is not waiting
WaitingFor(r) ==
    LET f == h[r]
    IN IF f.pc = "reserve_stock"
       THEN LET it == f.combined[f.i]
            IN IF ReserveMatches(r, it.product_id, it.qty) /\ LockedByOther(r, it.product_id)
               THEN it.product_id ELSE 0
       ELSE IF f.pc = "flush" /\ f.pid \in DOMAIN products /\ LockedByOther(r, f.pid)
               /\ (f.op = "update_product" => Changed(f.p, f.body) # {})
       THEN f.pid
       ELSE 0

\* r waits for a row that q has locked
WaitsOn(r, q) ==
    /\ q # r
    /\ WaitingFor(r) # 0
    /\ h[q].session = "open"
    /\ WaitingFor(r) \in DOMAIN h[q].tx.products

RECURSIVE Reaches(_, _, _)
\* a chain of at most n waits leads from r to q
Reaches(r, q, n) ==
    IF n = 0 THEN FALSE
    ELSE WaitsOn(r, q) \/ \E m \in Reqs : WaitsOn(r, m) /\ Reaches(m, q, n - 1)

InDeadlock(r) == Reaches(r, r, NumReqs)

\* the deadlock detector aborts a waiting statement of the cycle; the error is
\* no HTTPException, so it leaves create_order and get_session rolls back
DeadlockAbort(r) ==
    /\ InDeadlock(r)
    /\ h' = [h EXCEPT ![r] =
            Raise([h[r] EXCEPT !.stmts = Append(@, "UPDATE products")],
                  500, "deadlock detected", <<WaitingFor(r)>>)]
    /\ UNCHANGED <<db, pre>>

\* ------------------------------------- create_order as a function of its input
RECURSIVE ReserveAll(_, _)
\* reserve_stock with no other transaction open: the catalog after the loop, or
\* the product whose UPDATE matched no row
ReserveAll(catalog, combined) ==
    IF combined = <<>> THEN [ok |-> TRUE, products |-> catalog, pid |-> 0]
    ELSE LET n      == Len(combined)
             before == ReserveAll(catalog, SubSeq(combined, 1, n - 1))
             pid    == combined[n].product_id
             qty    == combined[n].qty
         IN IF ~before.ok THEN before
            ELSE IF pid \in DOMAIN before.products /\ before.products[pid].stock >= qty
            THEN [before EXCEPT !.products[pid].stock = @ - qty]
            ELSE [ok |-> FALSE, products |-> before.products, pid |-> pid]

\* what one POST /orders by user with body items leaves behind when it runs with
\* no other request: status, detail, the catalog, and the orders committed
SeqRun(catalog, user, items) ==
    LET combined    == Combine(items)
        product_ids == Keys(combined)
        prices      == [p \in product_ids \cap DOMAIN catalog |-> catalog[p].price_cents]
        reserved    == ReserveAll(catalog, combined)
        failed(status, msg, arg) ==
            [status |-> status, detail |-> [msg |-> msg, arg |-> arg],
             products |-> catalog, orders |-> {}]
    IN IF user = NoUser THEN failed(401, "missing X-User", <<>>)
       ELSE IF ~ValidOrderCreate(items) THEN failed(422, "validation", <<>>)
       ELSE IF Cardinality(DOMAIN prices) # Cardinality(product_ids)
       THEN failed(400, "unknown product(s)", SortedSeq(product_ids \ DOMAIN prices))
       ELSE IF ~reserved.ok
       THEN failed(400, "insufficient stock for product", <<reserved.pid>>)
       ELSE [status |-> 200, detail |-> NoDetail, products |-> reserved.products,
             orders |-> {[user_id |-> user, total_cents |-> Total(combined, prices),
                          items |-> {[product_id |-> combined[k].product_id,
                                      qty |-> combined[k].qty,
                                      price_cents |-> prices[combined[k].product_id]]
                                     : k \in 1..Len(combined)}]}]

\* ------------------------------------------------------------------- Init
Rows == [price_cents : 0..MaxPrice, stock : 0..MaxStock]

\* the catalogs that a sequence of create_product, update_product and
\* delete_product requests leaves behind
Catalogs == UNION {[S -> Rows] : S \in SUBSET PIDs}

\* the catalogs whose products carry their list price
ListPrice(p) == p % (MaxPrice + 1)
ListCatalogs == {c \in Catalogs : \A p \in DOMAIN c : c[p].price_cents = ListPrice(p)}

\* the valid OrderCreate bodies and the empty item list
Baskets == {l \in ItemLists : l = <<>> \/ ValidOrderCreate(l)}

InitWith(catalogs) ==
    /\ products \in catalogs
    /\ orders = {}
    /\ order_items = {}
    /\ orders_id_seq = 1
    /\ order_items_id_seq = 1
    /\ h = [r \in Reqs |-> Idle]
    /\ pre = products

Init == InitWith(ListCatalogs)

Staff == {"carol"}

Next ==
    \/ \E r \in Reqs, user \in Users, items \in Baskets : CreateOrderBegin(r, user, items)
    \/ \E r \in Reqs, user \in Users : ListMyOrdersBegin(r, user)
    \/ \E r \in Reqs, user \in Staff, pid \in PIDs, body \in ProductIns :
          UpdateProductBegin(r, user, pid, body)
    \/ \E r \in Reqs, user \in Staff, pid \in PIDs : DeleteProductBegin(r, user, pid)
    \/ \E r \in Reqs : FetchPrices(r)
    \/ \E r \in Reqs : ReserveStock(r)
    \/ \E r \in Reqs : AddOrder(r)
    \/ \E r \in Reqs : AddItems(r)
    \/ \E r \in Reqs : SelectOrders(r)
    \/ \E r \in Reqs : LoadItems(r)
    \/ \E r \in Reqs : UpdateProductFlush(r)
    \/ \E r \in Reqs : DeleteProductFlush(r)
    \/ \E r \in Reqs : DeadlockAbort(r)
    \/ \E r \in Reqs : Commit(r)

Spec == Init /\ [][Next]_vars

\* ------------------------------------------- one request, run on its own
\* no other request has begun
Alone(r) == \A q \in Reqs \ {r} : h[q].pc = "idle"

InitSeq == InitWith(Catalogs)

NextSeq ==
    \/ \E r \in Reqs, user \in Users \cup {NoUser}, items \in ItemLists :
          Alone(r) /\ CreateOrderBegin(r, user, items)
    \/ \E r \in Reqs, user \in Users \cup {NoUser} : Alone(r) /\ ListMyOrdersBegin(r, user)
    \/ \E r \in Reqs : FetchPrices(r)
    \/ \E r \in Reqs : ReserveStock(r)
    \/ \E r \in Reqs : AddOrder(r)
    \/ \E r \in Reqs : AddItems(r)
    \/ \E r \in Reqs : SelectOrders(r)
    \/ \E r \in Reqs : Commit(r)

SpecSeq == InitSeq /\ [][NextSeq]_vars

\* ------------------- concurrent orders of 6 against one product with stock 10
RaceItems == <<[product_id |-> 1, qty |-> 6]>>

InitRace ==
    InitWith({c \in [{1} -> [price_cents : 0..MaxPrice, stock : {10}]] : TRUE})

NextRace ==
    \/ \E r \in Reqs, user \in Users : CreateOrderBegin(r, user, RaceItems)
    \/ \E r \in Reqs : FetchPrices(r)
    \/ \E r \in Reqs : ReserveStock(r)
    \/ \E r \in Reqs : AddOrder(r)
    \/ \E r \in Reqs : AddItems(r)
    \/ \E r \in Reqs : Commit(r)

SpecRace == InitRace /\ [][NextRace]_vars

\* ------------------------- order requests against a table of earlier orders
MaxPast == 3

\* the k-th earlier checkout: one unit of one product at its list price, placed
\* by alice and bob in turn, as create_order leaves it behind
PastOrder(k) ==
    [id |-> k, user_id |-> IF k % 2 = 1 THEN "alice" ELSE "bob",
     total_cents |-> ListPrice(((k - 1) % NumProducts) + 1)]
PastItem(k) ==
    [id |-> k, order_id |-> k, product_id |-> ((k - 1) % NumProducts) + 1, qty |-> 1,
     price_cents |-> ListPrice(((k - 1) % NumProducts) + 1)]

InitList ==
    /\ products = [p \in PIDs |-> [price_cents |-> ListPrice(p), stock |-> MaxStock]]
    /\ \E n \in 0..MaxPast :
          /\ orders = {PastOrder(k) : k \in 1..n}
          /\ order_items = {PastItem(k) : k \in 1..n}
          /\ orders_id_seq = n + 1
          /\ order_items_id_seq = n + 1
    /\ h = [r \in Reqs |-> Idle]
    /\ pre = products

NextList ==
    \/ \E r \in Reqs, user \in Users, items \in Baskets : CreateOrderBegin(r, user, items)
    \/ \E r \in Reqs, user \in Users \cup {NoUser} : ListMyOrdersBegin(r, user)
    \/ \E r \in Reqs : FetchPrices(r)
    \/ \E r \in Reqs : ReserveStock(r)
    \/ \E r \in Reqs : AddOrder(r)
    \/ \E r \in Reqs : AddItems(r)
    \/ \E r \in Reqs : SelectOrders(r)
    \/ \E r \in Reqs : LoadItems(r)
    \/ \E r \in Reqs : DeadlockAbort(r)
    \/ \E r \in Reqs : Commit(r)

SpecList == InitList /\ [][NextList]_vars

\* ------------------------------------------- order requests that can fail
\* a statement of the handler raises (the connection fails, the statement is
\* refused): the exception passes through get_session's except branch
StatementFails(r) ==
    /\ h[r].session = "open"
    /\ h[r].pc \notin {"idle", "commit", "done"}
    /\ h' = [h EXCEPT ![r] = Raise(h[r], 500, "statement failed", <<>>)]
    /\ UNCHANGED <<db, pre>>

\* s.commit() raises after the handler has returned: except branch, s.rollback()
CommitFails(r) ==
    /\ h[r].session = "open"
    /\ h[r].pc = "commit"
    /\ h' = [h EXCEPT ![r] = Raise(h[r], 500, "commit failed", <<>>)]
    /\ UNCHANGED <<db, pre>>

\* the request is cancelled: the exception thrown into the generator is no
\* Exception, so the except branch is skipped and the finally's s.close()
\* discards the open transaction; no response goes out
Cancelled(r) ==
    /\ h[r].session = "open"
    /\ h[r].pc \notin {"idle", "done"}
    /\ h' = [h EXCEPT ![r] = Raise(h[r], 0, "cancelled", <<>>)]
    /\ UNCHANGED <<db, pre>>

Shoppers == {"alice"}

InitFault == InitWith(ListCatalogs)

NextFault ==
    \/ \E r \in Reqs, user \in Shoppers \cup {NoUser}, items \in Baskets :
          CreateOrderBegin(r, user, items)
    \/ \E r \in Reqs, user \in Shoppers : ListMyOrdersBegin(r, user)
    \/ \E r \in Reqs : FetchPrices(r)
    \/ \E r \in Reqs : ReserveStock(r)
    \/ \E r \in Reqs : AddOrder(r)
    \/ \E r \in Reqs : AddItems(r)
    \/ \E r \in Reqs : SelectOrders(r)
    \/ \E r \in Reqs : LoadItems(r)
    \/ \E r \in Reqs : DeadlockAbort(r)
    \/ \E r \in Reqs : StatementFails(r)
    \/ \E r \in Reqs : CommitFails(r)
    \/ \E r \in Reqs : Cancelled(r)
    \/ \E r \in Reqs : Commit(r)

SpecFault == InitFault /\ [][NextFault]_vars

\* =================================================================== claims
\* ---------------------------------------------- what the claims speak about
IsOrder(r) == h[r].op = "create_order"
Done(r) == h[r].pc = "done"
Insufficient(r) == h[r].status = 400 /\ h[r].detail.msg = "insufficient stock for product"
UnknownProduct(r) == h[r].status = 400 /\ h[r].detail.msg = "unknown product(s)"

\* a POST /orders that passes require_user and the body's validation
Accepted(r) == IsOrder(r) /\ h[r].user # NoUser /\ ValidOrderCreate(h[r].items)

\* the product ids a body names
Named(items) == {items[k].product_id : k \in 1..Len(items)}

RECURSIVE MergedQty(_, _)
\* the sum of qty over the entries of a body that name product pid
MergedQty(items, pid) ==
    IF items = <<>> THEN 0
    ELSE (IF items[1].product_id = pid THEN items[1].qty ELSE 0)
         + MergedQty(Tail(items), pid)

RECURSIVE MergedList(_)
\* the body with one entry per product, in first-occurrence order, carrying the summed qty
MergedList(items) ==
    IF items = <<>> THEN <<>>
    ELSE LET pid  == items[1].product_id
             rest == SelectSeq(Tail(items), LAMBDA it : it.product_id # pid)
         IN <<[product_id |-> pid, qty |-> MergedQty(items, pid)]>> \o MergedList(rest)

RECURSIVE LineTotal(_)
\* the sum of qty * price_cents over a set of order items
LineTotal(S) ==
    IF S = {} THEN 0
    ELSE LET x == CHOOSE y \in S : TRUE
         IN x.qty * x.price_cents + LineTotal(S \ {x})

RECURSIVE QtyTotal(_)
\* the sum of qty over a set of order items
QtyTotal(S) ==
    IF S = {} THEN 0
    ELSE LET x == CHOOSE y \in S : TRUE
         IN x.qty + QtyTotal(S \ {x})

ItemsOf(o, table) == {x \in table : x.order_id = o.id}

\* the orders committed, without their generated ids
CommittedOrders ==
    {[user_id |-> o.user_id, total_cents |-> o.total_cents,
      items |-> {OrderItemOut(x) : x \in ItemsOf(o, order_items)}] : o \in orders}

\* request r commits in this step
Commits(r) == h[r].pc = "commit" /\ h'[r].pc = "done"

\* ------------------------------------------------------------------------ C1
\* C1: in every reachable state the stock of every product is >= 0, in the
\* committed table and in every row version a transaction has written.
C1_StockNeverNegative ==
    /\ \A p \in DOMAIN products : products[p].stock >= 0
    /\ \A r \in Reqs : \A p \in DOMAIN h[r].tx.products : h[r].tx.products[p].stock >= 0

\* two orders contend for one product: one holds its row lock with a decrement
\* not yet committed, the other's conditional UPDATE waits for it, and the product
\* cannot serve both
C1_Witness ==
    \E r \in Reqs, q \in Reqs :
        /\ IsOrder(r) /\ IsOrder(q) /\ WaitsOn(q, r)
        /\ LET pid == WaitingFor(q)
           IN h[q].combined[h[q].i].qty > h[r].tx.products[pid].stock

\* ------------------------------------------------------------------------ C2
\* C2: a POST /orders whose merged quantity for some product exceeds that
\* product's stock (all its products existing) ends with the insufficient-stock
\* error, and when it has ended every product's stock is what it was before the
\* request and no order or order item exists.
C2_InsufficientStockRollsBack ==
    \A r \in Reqs :
        (/\ Done(r) /\ Accepted(r)
         /\ Named(h[r].items) \subseteq DOMAIN pre
         /\ \E p \in Named(h[r].items) : MergedQty(h[r].items, p) > pre[p].stock)
        => /\ Insufficient(r)
           /\ h[r].session = "rolled_back"
           /\ products = pre
           /\ orders = {} /\ order_items = {}

\* the request failed on its second product after the reservation of its first
\* product had succeeded
C2_Witness ==
    \E r \in Reqs :
        /\ Done(r) /\ Insufficient(r)
        /\ Len(h[r].combined) = 2
        /\ h[r].detail.arg = <<h[r].combined[2].product_id>>
        /\ pre[h[r].combined[1].product_id].stock >= h[r].combined[1].qty

\* ------------------------------------------------------------------------ C3
\* C3: of the concurrent orders of qty 6 against one product with stock 10,
\* under every interleaving exactly one succeeds, every other one fails with the
\* insufficient-stock error, and the final stock is 4; at no time do the
\* committed quantities of the product sum to more than 10.
C3_ExactlyOneWins ==
    /\ QtyTotal({x \in order_items : x.product_id = 1}) <= 10
    /\ (\A r \in Reqs : Done(r))
       => /\ Cardinality({r \in Reqs : h[r].status = 200}) = 1
          /\ \A r \in Reqs : h[r].status # 200 => Insufficient(r)
          /\ products[1].stock = 4

\* all requests have ended, one of them refused
C3_Witness ==
    /\ \A r \in Reqs : Done(r)
    /\ \E r \in Reqs : Insufficient(r)
    /\ \E r \in Reqs : h[r].status = 200

\* ------------------------------------------------------------------------ C4
\* C4: a valid POST /orders whose products all exist with stock >= the merged
\* quantity succeeds; each distinct product's stock has gone down by exactly its
\* merged quantity, every other product is unchanged, and the total_cents
\* returned is the sum over the distinct products of merged qty times the price
\* at call time.
C4_SuccessDecrementsAndTotals ==
    \A r \in Reqs :
        (/\ Done(r) /\ Accepted(r)
         /\ Named(h[r].items) \subseteq DOMAIN pre
         /\ \A p \in Named(h[r].items) : MergedQty(h[r].items, p) <= pre[p].stock)
        => /\ h[r].status = 200
           /\ DOMAIN products = DOMAIN pre
           /\ \A p \in DOMAIN pre :
                 /\ products[p].stock = pre[p].stock - MergedQty(h[r].items, p)
                 /\ products[p].price_cents = pre[p].price_cents
           /\ Len(h[r].response) = 1
           /\ h[r].response[1].total_cents =
                 LineTotal({[product_id |-> p, qty |-> MergedQty(h[r].items, p),
                             price_cents |-> pre[p].price_cents] : p \in Named(h[r].items)})

\* a successful order of two products at different, non-zero prices, one of
\* them with qty 2
C4_Witness ==
    \E r \in Reqs :
        /\ Done(r) /\ IsOrder(r) /\ h[r].status = 200
        /\ Cardinality(Named(h[r].items)) = 2
        /\ \E k \in 1..2 : h[r].items[k].qty = 2
        /\ pre[1].price_cents # pre[2].price_cents
        /\ pre[1].price_cents > 0 /\ pre[2].price_cents > 0

\* ------------------------------------------------------------------------ C5
\* C5: every committed order's total_cents is the sum of qty * price_cents over
\* its own committed items, and so is the total of every order a create_order
\* response or a list_my_orders result carries.
C5_TotalIsSumOfItems ==
    /\ \A o \in orders : o.total_cents = LineTotal(ItemsOf(o, order_items))
    /\ \A r \in Reqs :
          /\ \A k \in 1..Len(h[r].out) :
                h[r].out[k].total_cents = LineTotal(h[r].out[k].items)
          /\ \A k \in 1..Len(h[r].response) :
                h[r].response[k].total_cents = LineTotal(h[r].response[k].items)

\* list_my_orders has read an order with items and a total that is not 0
C5_Witness ==
    \E r \in Reqs :
        /\ h[r].op = "list_my_orders"
        /\ Len(h[r].out) >= 1
        /\ h[r].out[1].items # {}
        /\ h[r].out[1].total_cents > 0

\* ------------------------------------------------------------------------ C6
\* C6 as stated: every change of a committed product's stock is the commit of
\* an order's conditional decrement (stock >= qty before, stock - qty after).
C6_OnlyReservationChangesStock ==
    [][\A p \in DOMAIN products \cap DOMAIN products' :
          products'[p].stock # products[p].stock
          => \E r \in Reqs :
                /\ Commits(r) /\ IsOrder(r)
                /\ \E k \in 1..Len(h[r].combined) :
                      /\ h[r].combined[k].product_id = p
                      /\ products[p].stock >= h[r].combined[k].qty
                      /\ products'[p].stock = products[p].stock - h[r].combined[k].qty]_vars

\* C6 amended: every change of a committed product's stock is either the commit
\* of an order's conditional decrement, or the commit of a catalog update_product
\* that read a stock different from its body's stock and wrote the body's stock
\* (>= 0) over whatever stock the row held by then.
C6_StockChangesByReservationOrPut ==
    [][\A p \in DOMAIN products \cap DOMAIN products' :
          products'[p].stock # products[p].stock
          => \E r \in Reqs :
                /\ Commits(r)
                /\ \/ /\ IsOrder(r)
                      /\ \E k \in 1..Len(h[r].combined) :
                            /\ h[r].combined[k].product_id = p
                            /\ products[p].stock >= h[r].combined[k].qty
                            /\ products'[p].stock = products[p].stock - h[r].combined[k].qty
                   \/ /\ h[r].op = "update_product"
                      /\ h[r].pid = p
                      /\ h[r].body.stock # h[r].p.stock
                      /\ h[r].body.stock >= 0
                      /\ products'[p].stock = h[r].body.stock]_vars

\* an update_product has committed a stock that differs from the one it read,
\* raising the stock of a product that an order had decremented
C6_Witness ==
    \E r \in Reqs, q \in Reqs :
        /\ h[r].op = "update_product" /\ h[r].status = 200
        /\ h[r].body.stock # h[r].p.stock
        /\ IsOrder(q) /\ h[q].status = 200 /\ h[r].pid \in Named(h[q].items)
        /\ products[h[r].pid].stock = h[r].body.stock
        /\ products[h[r].pid].stock > 0

\* ------------------------------------------------------------------------ C7
\* C7: a valid POST /orders that names a product id absent from the catalog
\* ends with the unknown-product error listing exactly the absent ids in
\* ascending order, has executed no reservation UPDATE, and leaves the catalog,
\* the orders and the order items as they were.
C7_UnknownProductMutatesNothing ==
    \A r \in Reqs :
        (/\ Done(r) /\ Accepted(r)
         /\ ~(Named(h[r].items) \subseteq DOMAIN pre))
        => /\ UnknownProduct(r)
           /\ LET arg == h[r].detail.arg
              IN /\ {arg[k] : k \in 1..Len(arg)} = Named(h[r].items) \ DOMAIN pre
                 /\ \A k \in 1..Len(arg) - 1 : arg[k] < arg[k + 1]
           /\ \A k \in 1..Len(h[r].stmts) : h[r].stmts[k] # "UPDATE products"
           /\ products = pre
           /\ orders = {} /\ order_items = {}

\* the body names two absent products, the larger id first
C7_Witness ==
    \E r \in Reqs :
        /\ Done(r) /\ UnknownProduct(r)
        /\ Len(h[r].items) = 2
        /\ h[r].items[1].product_id > h[r].items[2].product_id
        /\ Len(h[r].detail.arg) = 2

\* ------------------------------------------------------------------------ C8
\* C8: a POST /orders whose body repeats product ids ends as the same request
\* with the merged body (one entry per product carrying the summed qty) ends
\* from the same state: the same status and error, the same catalog, and the
\* same committed order with the same items and total_cents.
C8_DuplicatesBehaveAsMerged ==
    \A r \in Reqs :
        (Done(r) /\ Accepted(r))
        => [status |-> h[r].status, detail |-> h[r].detail,
            products |-> products, orders |-> CommittedOrders]
           = SeqRun(pre, h[r].user, MergedList(h[r].items))

\* a body naming one product twice has been served
C8_Witness ==
    \E r \in Reqs :
        /\ Done(r) /\ IsOrder(r) /\ h[r].status = 200
        /\ Len(h[r].items) = 2
        /\ h[r].items[1].product_id = h[r].items[2].product_id
        /\ h[r].combined = <<[product_id |-> h[r].items[1].product_id, qty |-> 2]>>

\* ------------------------------------------------------------------------ C9
\* C9: once an order is committed no later step changes it: its row stays in
\* orders with the same total_cents, and its items stay the same rows with the
\* same qty and price_cents.
C9_CommittedOrdersAreFrozen ==
    [][\A o \in orders :
          /\ o \in orders'
          /\ \A o2 \in orders' : o2.id = o.id => o2 = o
          /\ ItemsOf(o, order_items') = ItemsOf(o, order_items)]_vars

\* a committed order holds an item whose product's price has since been changed
\* by a committed update_product
C9_Witness ==
    \E y \in order_items, r \in Reqs :
        /\ \E o \in orders : y.order_id = o.id
        /\ h[r].op = "update_product" /\ h[r].status = 200 /\ h[r].pid = y.product_id
        /\ products[y.product_id].price_cents # y.price_cents

\* ----------------------------------------------------------------------- C10
\* C10 as stated: a POST /orders with an empty item list is rejected with a
\* validation error and has executed no statement against the database.
C10_EmptyListTouchesNoDatabase ==
    \A r \in Reqs :
        (Done(r) /\ IsOrder(r) /\ h[r].user # NoUser /\ h[r].items = <<>>)
        => /\ h[r].status \in {400, 422}
           /\ h[r].stmts = <<>>

\* ----------------------------------------------------------------------- C11
IsList(r) == h[r].op = "list_my_orders"

\* the ids of a sequence of rows fall strictly
StrictlyDescending(rows) ==
    \A k \in 1..(Len(rows) - 1) : rows[k].id > rows[k + 1].id

\* C11: the SELECT of list_my_orders(u) returns exactly the committed orders
\* whose user_id is u, in strictly descending id; every entry handed back is
\* such an order with exactly its own committed items, the response has one
\* entry per selected order, and no step of the request changes products,
\* orders or order_items.
C11_ListReturnsOwnOrdersNewestFirst ==
    [][\A r \in Reqs :
          /\ (IsList(r) /\ h[r].pc = "select_orders" /\ h'[r].pc # "select_orders")
             => /\ {h'[r].rows[k] : k \in 1..Len(h'[r].rows)}
                      = {o \in orders : o.user_id = h[r].user}
                /\ Len(h'[r].rows) = Cardinality({o \in orders : o.user_id = h[r].user})
                /\ StrictlyDescending(h'[r].rows)
          /\ IsList(r) /\ h'[r] # h[r]
             => /\ products' = products /\ orders' = orders /\ order_items' = order_items
                /\ \A k \in 1..Len(h'[r].out) :
                      h'[r].out[k] = OrderOut(h'[r].rows[k], ItemsOf(h'[r].rows[k], order_items))
                /\ (h'[r].pc = "done" /\ h'[r].status = 200)
                   => /\ h'[r].response = h'[r].out
                      /\ Len(h'[r].out) = Len(h'[r].rows)]_vars

\* a list that returned two orders of its user, the newer of them placed by the
\* other request, while an order of another user is committed too
C11_Witness ==
    \E r \in Reqs : \E q \in Reqs \ {r} :
        /\ IsList(r) /\ Done(r) /\ h[r].status = 200
        /\ Len(h[r].response) >= 2
        /\ IsOrder(q) /\ h[q].status = 200 /\ h[r].response[1].id = h[q].order.id
        /\ \E o \in orders : o.user_id # h[r].user

\* ----------------------------------------------------------------------- C12
\* the step takes request r out of get_session
Exits(r) == h[r].pc # "done" /\ h'[r].pc = "done"

\* the writes of a create_order that has run all its steps: one decrement and
\* one item per product of the request, and the order row
WholeOrder(f) ==
    /\ DOMAIN f.tx.products = Named(f.items)
    /\ {x.product_id : x \in f.tx.order_items} = Named(f.items)
    /\ Cardinality(f.tx.order_items) = Cardinality(Named(f.items))
    /\ f.tx.orders = {f.order}

\* C12: however an order request leaves get_session (the handler returned, an
\* HTTP error, another exception, a failed commit, a cancellation), it leaves
\* with no open transaction and its session committed or rolled back; a rollback
\* changes no table, and the tables change only by a commit that applies every
\* write of its request, for a create_order all its reservations, its order and
\* all its items.
C12_EndsCommittedOrRolledBack ==
    [][/\ \A r \in Reqs :
             Exits(r)
             => /\ h'[r].tx = NoTx
                /\ h'[r].session \in {"none", "committed", "rolled_back"}
                /\ h'[r].session = "none" => h[r].pc = "idle" /\ h'[r].status = 401
                /\ h'[r].session = "rolled_back"
                   => products' = products /\ orders' = orders /\ order_items' = order_items
                /\ h'[r].session = "committed"
                   => /\ products' = CommitProducts(h[r].tx.products)
                      /\ orders' = orders \cup h[r].tx.orders
                      /\ order_items' = order_items \cup h[r].tx.order_items
                      /\ IsOrder(r) => WholeOrder(h[r])
       /\ (products' # products \/ orders' # orders \/ order_items' # order_items)
          => \E r \in Reqs : Exits(r) /\ h'[r].session = "committed"]_vars

\* a create_order that had reserved one product of two was cancelled, and one
\* whose commit failed after all its writes: both rolled back, nothing committed
C12_Witness ==
    \E r \in Reqs : \E q \in Reqs \ {r} :
        /\ IsOrder(r) /\ Done(r) /\ h[r].detail.msg = "cancelled"
        /\ Len(h[r].combined) = 2 /\ h[r].i = 2
        /\ IsOrder(q) /\ Done(q) /\ h[q].detail.msg = "commit failed"
        /\ h[r].session = "rolled_back" /\ h[q].session = "rolled_back"
        /\ orders = {} /\ products = pre

\* ----------------------------------------------------------------------- C13
\* C13 as stated: POST /orders answers 401 without the identity header, and 400
\* for an invalid body (no items, a qty below 1), for an unknown product and for
\* insufficient stock; in each of these cases no order is persisted and no stock
\* changes.
C13_ErrorsAnswer400Or401 ==
    \A r \in Reqs :
        (Done(r) /\ IsOrder(r))
        => /\ h[r].user = NoUser => h[r].status = 401
           /\ (h[r].user # NoUser /\ ~ValidOrderCreate(h[r].items)) => h[r].status = 400
           /\ (Accepted(r) /\ ~(Named(h[r].items) \subseteq DOMAIN pre)) => h[r].status = 400
           /\ (Accepted(r) /\ Named(h[r].items) \subseteq DOMAIN pre
                 /\ \E p \in Named(h[r].items) : MergedQty(h[r].items, p) > pre[p].stock)
              => h[r].status = 400
           /\ h[r].status # 200 => orders = {} /\ order_items = {} /\ products = pre

\* ----------------------------------------------------------------------- C14
\* the committed order items of product p
ItemsFor(p, table) == {x \in table : x.product_id = p}

\* C14: when only order requests write stock, after every step each product of
\* the initial catalog is still there and its initial stock minus its committed
\* stock is the sum of qty over the committed order items of that product; a
\* step lowers a committed stock by exactly the qty of the items of that
\* product it commits, and it commits an item only together with the order the
\* item belongs to, and an order only together with its items.
C14_StockConservation ==
    [][/\ \A p \in DOMAIN pre :
             /\ p \in DOMAIN products'
             /\ pre[p].stock - products'[p].stock = QtyTotal(ItemsFor(p, order_items'))
             /\ p \in DOMAIN products
                => products[p].stock - products'[p].stock
                      = QtyTotal(ItemsFor(p, order_items' \ order_items))
       /\ \A x \in order_items' \ order_items :
             \E o \in orders' \ orders : x.order_id = o.id
       /\ \A o \in orders' \ orders :
             /\ ItemsOf(o, order_items') # {}
             /\ ItemsOf(o, order_items') \subseteq order_items' \ order_items]_vars

\* one order of a product is committed, and a second one that had reserved the
\* same product was rolled back when its commit failed
C14_Witness ==
    \E r \in Reqs : \E q \in Reqs \ {r} : \E p \in DOMAIN pre :
        /\ IsOrder(r) /\ Done(r) /\ h[r].status = 200
        /\ IsOrder(q) /\ Done(q) /\ h[q].detail.msg = "commit failed"
        /\ p \in Named(h[r].items) \cap Named(h[q].items)
        /\ pre[p].stock - products[p].stock = MergedQty(h[r].items, p)

\* ----------------------------------------------------------------------- C15
\* C15: a create_order request is decided by committed rows only. Its price
\* lookup returns the committed price of every named product that is committed;
\* when it fails with insufficient stock for a product, the committed stock of
\* that product at that step is below the request's merged qty; and a list reads
\* committed orders only. What another request has written and not committed,
\* and so everything a request that ends in rollback ever wrote, is never read.
C15_OnlyCommittedRowsAreRead ==
    [][\A r \in Reqs :
          /\ (IsOrder(r) /\ h[r].pc = "fetch_prices"
                /\ (h'[r].pc = "reserve_stock" \/ UnknownProduct(r)'))
             => h'[r].prices = [p \in Named(h[r].items) \cap DOMAIN products |->
                                   products[p].price_cents]
          /\ (IsOrder(r) /\ h[r].pc = "reserve_stock" /\ Done(r)' /\ Insufficient(r)')
             => LET pid == h'[r].detail.arg[1]
                IN /\ pid \in DOMAIN products
                   /\ products[pid].stock < MergedQty(h[r].items, pid)
          /\ (IsList(r) /\ h[r].pc = "select_orders" /\ h'[r].pc # "select_orders")
             => \A k \in 1..Len(h'[r].rows) : h'[r].rows[k] \in orders]_vars

\* a request fails with insufficient stock after another request, which had
\* reserved the same product, was rolled back without committing anything
C15_Witness ==
    \E r \in Reqs : \E q \in Reqs \ {r} :
        /\ IsOrder(r) /\ Done(r) /\ Insufficient(r)
        /\ IsOrder(q) /\ Done(q) /\ h[q].session = "rolled_back"
        /\ h[q].detail.msg \in {"commit failed", "cancelled", "statement failed"}
        /\ h[q].i >= 2
        /\ h[r].detail.arg[1] \in Named(h[q].items)
        /\ products = pre

\* ----------------------------------------------------------------------- C16
\* C16 as stated, its lock-order part: two concurrent create_order requests
\* never end up each waiting for a product row whose lock the other holds.
C16_NoMutualWait ==
    \A r \in Reqs : \A q \in Reqs \ {r} :
        (IsOrder(r) /\ IsOrder(q)) => ~(WaitsOn(r, q) /\ WaitsOn(q, r))

\* ----------------------------------------------------------------------- C17
\* C17 as stated: whenever create_order has handed back its OrderOut and counted
\* the order in ORDERS_CREATED, the request ends committed with that order in
\* the orders table; it never ends rolled back.
C17_ReturnedOrderIsCommitted ==
    \A r \in Reqs :
        (IsOrder(r) /\ Done(r) /\ h[r].created = 1 /\ h[r].response # <<>>)
        => /\ h[r].session = "committed"
           /\ \E o \in orders : o.id = h[r].response[1].id

\* ----------------------------------------------------------------------- C18
\* C18: every order item a create_order request builds, uncommitted or
\* committed, carries the price its one price lookup returned for the product;
\* the order's total_cents is the sum of qty times those prices; and the request
\* reads the products table once, whatever the catalog does in between.
C18_ItemsCarryLookedUpPrice ==
    \A r \in Reqs :
        IsOrder(r)
        => /\ \A x \in ItemsOf(h[r].order, order_items \cup h[r].tx.order_items) :
                 /\ x.product_id \in DOMAIN h[r].prices
                 /\ x.price_cents = h[r].prices[x.product_id]
           /\ \A o \in orders \cup h[r].tx.orders :
                 (o.id = h[r].order.id /\ ItemsOf(o, order_items \cup h[r].tx.order_items) # {})
                 => o.total_cents = Total(MergedList(h[r].items), h[r].prices)
           /\ Cardinality({k \in 1..Len(h[r].stmts) : h[r].stmts[k] = "SELECT products"}) <= 1

\* an order is committed whose item price is no longer the catalog's: a PUT of
\* the product was committed after the order's price lookup and before its
\* reservation (the stock left is the PUT's stock minus the order's qty)
C18_Witness ==
    \E r \in Reqs : \E q \in Reqs \ {r} : \E x \in order_items :
        /\ IsOrder(r) /\ Done(r) /\ h[r].status = 200 /\ x.order_id = h[r].order.id
        /\ h[q].op = "update_product" /\ Done(q) /\ h[q].status = 200
        /\ h[q].pid = x.product_id
        /\ x.product_id \in DOMAIN products
        /\ products[x.product_id].price_cents # x.price_cents
        /\ products[x.product_id].price_cents = h[q].body.price_cents
        /\ products[x.product_id].stock = h[q].body.stock - x.qty

\* ----------------------------------------------------------------------- C19
\* C19: a create_order that succeeded has exactly one row in orders; that order
\* has exactly one item per distinct product id of the request, so at least one
\* and no two of one product, each with qty >= 1 equal to the sum of the
\* request's quantities for the product; and every committed order is the order
\* of exactly one such request.
C19_OneOrderOneItemPerProduct ==
    /\ \A r \in Reqs :
          (IsOrder(r) /\ Done(r) /\ h[r].status = 200)
          => LET mine  == {o \in orders : o.id = h[r].order.id}
                 items == ItemsOf(h[r].order, order_items)
             IN /\ Cardinality(mine) = 1
                /\ \A o \in mine : o.user_id = h[r].user
                /\ Cardinality({o \in orders : o.user_id = h[r].user}) <=
                      Cardinality({q \in Reqs : IsOrder(q) /\ h[q].status = 200
                                                  /\ h[q].user = h[r].user})
                /\ items # {}
                /\ {x.product_id : x \in items} = Named(h[r].items)
                /\ Cardinality(items) = Cardinality(Named(h[r].items))
                /\ \A x \in items :
                      x.qty >= 1 /\ x.qty = MergedQty(h[r].items, x.product_id)
    /\ \A o \in orders :
          Cardinality({r \in Reqs : IsOrder(r) /\ h[r].status = 200 /\ h[r].order.id = o.id}) = 1

\* two orders are committed: one whose body named one product twice holds one
\* item of qty 2, the other holds its own single item
C19_Witness ==
    \E r \in Reqs :
        /\ IsOrder(r) /\ Done(r) /\ h[r].status = 200
        /\ Len(h[r].items) = 2
        /\ h[r].items[1].product_id = h[r].items[2].product_id
        /\ \E x \in order_items :
              ItemsOf(h[r].order, order_items) = {x} /\ x.qty = 2
        /\ \E q \in Reqs \ {r} :
              /\ IsOrder(q) /\ Done(q) /\ h[q].status = 200
              /\ Cardinality(ItemsOf(h[q].order, order_items)) = 1
        /\ Cardinality(orders) = 2
====
